---------------------------- MODULE Spec2Model ----------------------------
(***************************************************************************)
(* The asynchronous AI-reply pipeline of odoo_openai_chat                  *)
(* (src/services/agents_runner.py, class DiscussChannel):                  *)
(*   message_post      the synchronous request: posts the user's message,  *)
(*                     detects a trigger, registers the after-commit hook  *)
(*   _ai_reply_async   the worker thread: up to max_attempts transactions, *)
(*                     each under a per-channel PostgreSQL advisory lock   *)
(*   _generate_ai_reply the dispatch over the agents/assistants/chat       *)
(*                     backends                                            *)
(* Texts are sequences of one-character strings, so that strip(), the      *)
(* trigger regular expression and plaintext2html are computed.             *)
(***************************************************************************)
EXTENDS Integers, Sequences, FiniteSets, TLC

(* ------------------------------ bounds --------------------------------- *)
\* number of message_post requests (and so of possible workers)
NumPosts == 2
\* number of discuss channels
NumChannels == 2
\* number of concurrent callers of _get_or_create_ai_partner
NumCallers == 2
\* longest message history of a channel handed to the chat backend
MaxHistory == 3
\* longest configured poll timeout and longest poll iteration, in time units
MaxWait == 2
\* number of messages in the listing of an assistant thread
MaxListing == 2
Posts == 1..NumPosts
Channels == 1..NumChannels

(* ------------------------- program constants --------------------------- *)
\* _worker: max_attempts = 3
max_attempts == 3
\* _acquire_channel_lock(cr, channel_id, timeout=5): milliseconds
LockTimeoutMs == 5000
\* _acquire_channel_lock: time.sleep(0.2) between two tries, milliseconds
PollSleepMs == 200

\* AI_PARTNER_EMAIL identifies the bot partner
AI_PARTNER_EMAIL == "assistant@openai.local"
\* the partner of the user on whose behalf a request runs (env.user.partner_id)
EnvUser == "alice"
Authors == {EnvUser, AI_PARTNER_EMAIL}

\* _("No se pudo obtener respuesta del modelo.")
SENTINEL ==
  << "N","o"," ","s","e"," ","p","u","d","o"," ","o","b","t","e","n","e","r",
     " ","r","e","s","p","u","e","s","t","a"," ","d","e","l"," ","m","o","d",
     "e","l","o","." >>

(* ------------------------------- texts --------------------------------- *)
IsSpace(ch) == ch \in {" ", "\t", "\n"}

\* re.I: letters compare without case (the letters the aliases use)
Lower(ch) ==
  CASE ch = "A" -> "a" [] ch = "I" -> "i" [] ch = "M" -> "m"
    [] ch = "E" -> "e" [] ch = "T" -> "t" [] OTHER -> ch

RECURSIVE LStrip(_)
LStrip(s) == IF s # <<>> /\ IsSpace(Head(s)) THEN LStrip(Tail(s)) ELSE s

RECURSIVE RStrip(_)
RStrip(s) ==
  IF s # <<>> /\ IsSpace(s[Len(s)]) THEN RStrip(SubSeq(s, 1, Len(s) - 1)) ELSE s

\* str.strip()
Strip(s) == RStrip(LStrip(s))

Drop(s, n) == SubSeq(s, n + 1, Len(s))

\* a match that tells upper case from lower case
StartsWithCS(s, pat) ==
  /\ Len(s) >= Len(pat)
  /\ \A i \in 1..Len(pat) : s[i] = pat[i]

StartsWithCI(s, pat) ==
  /\ Len(s) >= Len(pat)
  /\ \A i \in 1..Len(pat) : Lower(s[i]) = Lower(pat[i])

TagOpen == << "<", "p", ">" >>
TagClose == << "<", "/", "p", ">" >>

\* tools.plaintext2html on a text without markup: the text inside <p>..</p>
plaintext2html(t) == TagOpen \o t \o TagClose

\* tools.html2plaintext: the text of a <p>..</p> paragraph, other text as is
html2plaintext(b) ==
  IF /\ Len(b) >= Len(TagOpen) + Len(TagClose)
     /\ SubSeq(b, 1, Len(TagOpen)) = TagOpen
     /\ SubSeq(b, Len(b) - Len(TagClose) + 1, Len(b)) = TagClose
  THEN SubSeq(b, Len(TagOpen) + 1, Len(b) - Len(TagClose))
  ELSE b

AliasAi == << "a", "i" >>
AliasIaMeta == << "i", "a", "M", "e", "t", "a" >>

\* re.match(r'^\s*/(ai|iaMeta)\s*(.*)$', body_plain, re.S | re.I):
\* <<trigger, prompt>>, the prompt being group 2 stripped
_detect_ai_trigger(body_plain) ==
  IF body_plain = <<>> THEN << FALSE, <<>> >>
  ELSE LET t == LStrip(body_plain) IN
    IF t = <<>> \/ Head(t) # "/" THEN << FALSE, <<>> >>
    ELSE IF StartsWithCI(Tail(t), AliasAi)
      THEN << TRUE, Strip(Drop(Tail(t), Len(AliasAi))) >>
    ELSE IF StartsWithCI(Tail(t), AliasIaMeta)
      THEN << TRUE, Strip(Drop(Tail(t), Len(AliasIaMeta))) >>
    ELSE << FALSE, <<>> >>

(* ------------------------------ channels ------------------------------- *)
\* channel_type of each channel record
ChannelType(c) ==
  CASE c = 1 -> "channel" [] c = 2 -> "chat" [] c = 3 -> "chat" [] OTHER -> "group"

\* _get_channel_partners: the partners of the channel's members
_get_channel_partners(c) ==
  CASE c = 1 -> {"alice", "bob", AI_PARTNER_EMAIL}
    [] c = 2 -> {"alice", AI_PARTNER_EMAIL}
    [] c = 3 -> {"alice", "bob"}
    [] OTHER -> {"alice", "bob", "carol"}

\* a test that looks for the bot among the members and at nothing else
_is_dm_with_ai_bot_anySize(c) ==
  AI_PARTNER_EMAIL \in _get_channel_partners(c)

\* _is_dm_with_ai_bot: a 1:1 chat one of whose two partners is the bot
_is_dm_with_ai_bot(c) ==
  /\ ChannelType(c) = "chat"
  /\ Cardinality(_get_channel_partners(c)) = 2
  /\ AI_PARTNER_EMAIL \in _get_channel_partners(c)

(* ------------------------------- inputs -------------------------------- *)
SlashHi == << "/", "a", "i", " ", "h", "i" >>
SlashBare == << "/", "A", "I", " " >>
PlainHi == << "h", "i" >>
\* the bodies a request may carry
Bodies == { SlashHi, SlashBare, PlainHi, <<>> }

(* ------------------------------- state --------------------------------- *)
VARIABLES
  rq,        \* rq[p]: the message_post request p and its transaction
  rpending,  \* rpending[p]: messages written by request p, not yet committed
  msgs,      \* committed mail.message records, in commit order
  thread,    \* thread[c]: committed openai_thread_id of channel c (0: unset)
  wk,        \* wk[w]: the worker thread started for request w
  wpending,  \* wpending[w]: messages written by the worker's open transaction
  hist,      \* hist[w]: what has happened to worker w so far (history)
  advisory,  \* advisory[c]: the session that holds the advisory lock of
             \* channel c and the number of times it holds it
  fn,        \* the call of a helper under study: its arguments and its result
  partners,  \* committed res.partner records that carry AI_PARTNER_EMAIL
  caller     \* caller[k]: a transaction that calls _get_or_create_ai_partner

\* the state of the reply pipeline, and the state of the helper calls
pipeline == << rq, rpending, msgs, thread, wk, wpending, hist, advisory >>
helpers == << fn, partners, caller >>
vars == << rq, rpending, msgs, thread, wk, wpending, hist, advisory,
           fn, partners, caller >>

NoRequest ==
  [ pc |-> "new", chan |-> 0, author |-> "", skip |-> FALSE,
    trigger |-> FALSE, prompt |-> <<>>, hasKey |-> FALSE,
    hook |-> FALSE, errors |-> 0 ]

NoWorker ==
  [ pc |-> "none", chan |-> 0, prompt |-> <<>>, attempt |-> 0, cursor |-> FALSE,
    elapsed |-> 0, acquired |-> FALSE, generated |-> FALSE, posted |-> FALSE,
    raw |-> "", reply |-> <<>>, rows |-> FALSE,
    newThread |-> 0, snapThread |-> 0, next |-> "" ]

\* history of worker w, kept for the properties only:
\*   started        the transaction end that started the worker
\*   conflictAt     the attempts whose commit raised SerializationFailure
\*   faulted        an error other than a commit conflict was met
\*   commits        transactions committed with a reply
\*   outcome        how the worker ended
NoHistory ==
  [ started |-> "", conflictAt |-> {}, faulted |-> FALSE, commits |-> 0, outcome |-> "" ]

\* The advisory lock of a channel is held by a database session, not by a
\* transaction: by the session of the open cursor of worker w (holder = w), by
\* a session whose cursor was closed and whose connection lies idle in the
\* pool (holder = Idle), or by none.  n counts the holds: a session may take
\* the lock it holds again and gives it up one hold at a time.  Idle is an id
\* no worker has
Idle == NumPosts + 1
Free == [holder |-> 0, n |-> 0]

Callers == 1..NumCallers
NoCall == [name |-> "none"]
NoCaller == [pc |-> "idle", made |-> 0, result |-> 0]

Init ==
  /\ rq = [p \in Posts |-> NoRequest]
  /\ rpending = [p \in Posts |-> <<>>]
  /\ msgs = <<>>
  /\ thread = [c \in Channels |-> 0]
  /\ wk = [w \in Posts |-> NoWorker]
  /\ wpending = [w \in Posts |-> <<>>]
  /\ hist = [w \in Posts |-> NoHistory]
  /\ advisory = [c \in Channels |-> Free]
  /\ fn = NoCall
  /\ partners = {}
  /\ caller = [k \in Callers |-> NoCaller]

(* --------------------------- message_post ------------------------------ *)
Message(c, author, body, kind, p) ==
  [ chan |-> c, author |-> author, body |-> body, kind |-> kind, by |-> p ]

\* _post_ai_error: a notice posted with openai_skip in the context
ErrorNotice == << "[", "O", "p", "e", "n", "A", "I", "]" >>
_post_ai_error(c, p) ==
  Message(c, EnvUser, plaintext2html(ErrorNotice), "error", p)

\* the trigger decision of message_post, lines 137-149:
\* <<trigger, user_prompt>> as they stand at the test of line 148
TriggerOf(c, author, body_plain) ==
  LET det == _detect_ai_trigger(body_plain)
      dm == (~det[1]) /\ _is_dm_with_ai_bot(c) /\ author # AI_PARTNER_EMAIL
  IN IF det[1] THEN det
     ELSE IF dm THEN << TRUE, body_plain >>
     ELSE << FALSE, <<>> >>

\* a scheduler that does not look at the API key
ShouldSchedule_withoutKey(passes, api_key) == passes

\* lines 151-170: the continuation is registered only with an API key
ShouldSchedule(passes, api_key) == passes /\ api_key

\* a test that lets a trigger with an empty prompt through
Passes_anyPrompt(trigger, user_prompt) == trigger

\* line 148: "if not trigger or not user_prompt: return message"
Passes(trigger, user_prompt) == trigger /\ user_prompt # <<>>

\* what message_post decides about a post, lines 124-176.  skip is the
\* openai_skip context flag, enabled and api_key the settings read during the
\* call, raises an exception raised inside the try block.  detects: the
\* trigger detection of lines 137-146 has run
PostOutcome(c, author, skip, body, enabled, api_key, raises) ==
  LET body_plain == Strip(html2plaintext(body))
      trig == TriggerOf(c, author, body_plain)
      detected == (~skip) /\ (~raises) /\ enabled
      passes == detected /\ Passes(trig[1], trig[2])
      failed == (~skip) /\ (raises \/ (passes /\ ~api_key))
  IN [ detects |-> detected,
       trigger |-> detected /\ trig[1],
       prompt |-> IF detected THEN trig[2] ELSE <<>>,
       hook |-> ShouldSchedule(passes, api_key),
       errors |-> IF failed THEN 1 ELSE 0 ]

\* a request that posts the error notice in place of the original message
Written_noticeOnly(original, failed, notice) ==
  IF failed THEN << notice >> ELSE << original >>

\* the messages message_post writes: the original (line 131, before the try
\* block), then the error notice if the handling failed (lines 153, 174)
Written(original, failed, notice) ==
  IF failed THEN << original, notice >> ELSE << original >>

\* message_post on channel c inside the request's transaction
message_post(p, c, author, skip, body, enabled, api_key, raises) ==
  /\ rq[p].pc = "new"
  /\ LET original == Message(c, author, body, "user", p)
         out == PostOutcome(c, author, skip, body, enabled, api_key, raises)
     IN /\ rpending' = [rpending EXCEPT ![p] =
             Written(original, out.errors > 0, _post_ai_error(c, p))]
        /\ rq' = [rq EXCEPT ![p] =
             [ pc |-> "open", chan |-> c, author |-> author, skip |-> skip,
               trigger |-> out.trigger,
               prompt |-> out.prompt,
               hasKey |-> api_key,
               hook |-> out.hook,
               errors |-> out.errors ]]
  /\ UNCHANGED << msgs, thread, wk, wpending, hist, advisory >>
  /\ UNCHANGED helpers

\* a scheduler that starts no worker while another one is in flight on the
\* same channel
_ai_reply_async_dedup(w, c, prompt) ==
  IF \E v \in Posts : wk[v].chan = c /\ wk[v].pc \notin {"none", "done"}
  THEN NoWorker
  ELSE [ NoWorker EXCEPT !.pc = "open", !.chan = c, !.prompt = prompt,
                         !.attempt = 1 ]

\* _ai_reply_async: threading.Thread(target=_worker).start()
_ai_reply_async(w, c, prompt) ==
  [ NoWorker EXCEPT !.pc = "open", !.chan = c, !.prompt = prompt, !.attempt = 1 ]

\* a callback that runs at the end of the transaction, however it ends
HookRuns_anyEnd(registered, event) == registered

\* self.env.cr.after('commit', _after_commit): a registered callback runs when
\* the transaction ends by commit, and is dropped when it ends by rollback
HookRuns(registered, event) == registered /\ event = "commit"

\* the transaction of request p ends: the worker the callback starts, if any
AfterTransaction(p, event) ==
  IF HookRuns(rq[p].hook, event)
  THEN /\ wk' = [wk EXCEPT ![p] = _ai_reply_async(p, rq[p].chan, rq[p].prompt)]
       /\ hist' = [hist EXCEPT ![p].started = event]
  ELSE UNCHANGED << wk, hist >>

\* the request's transaction commits: its messages become visible and the
\* callbacks registered with cr.after('commit', ...) run
RequestCommit(p) ==
  /\ rq[p].pc = "open"
  /\ rq' = [rq EXCEPT ![p].pc = "committed"]
  /\ msgs' = msgs \o rpending[p]
  /\ rpending' = [rpending EXCEPT ![p] = <<>>]
  /\ AfterTransaction(p, "commit")
  /\ UNCHANGED << thread, wpending, advisory >>
  /\ UNCHANGED helpers

\* the request's transaction rolls back: its messages and callbacks are dropped
RequestRollback(p) ==
  /\ rq[p].pc = "open"
  /\ rq' = [rq EXCEPT ![p].pc = "rolledback"]
  /\ rpending' = [rpending EXCEPT ![p] = <<>>]
  /\ AfterTransaction(p, "rollback")
  /\ UNCHANGED << msgs, thread, wpending, advisory >>
  /\ UNCHANGED helpers

(* ------------------------- _generate_ai_reply -------------------------- *)
Modes == {"chat", "assistants", "agents"}
\* what the agent runner does: returns a text, returns no text, or raises
AgentOutcomes == {"text", "empty", "raise"}
\* what _assistants_reply does: returns a text, returns '', raises before the
\* thread id is written, or raises after it
AssistantOutcomes == {"text", "empty", "raise_early", "raise_late"}
\* what _call_openai_chat does: returns the content, returns '' (a payload it
\* cannot parse), or raises (HTTP status >= 400, timeout)
ChatOutcomes == {"text", "empty", "raise"}

\* a text a backend returns
ReplyText == << "o", "k" >>

Returned(t) == [raised |-> FALSE, text |-> t]
Raised == [raised |-> TRUE, text |-> <<>>]

\* run_agent_for_channel(env, channel, prompt)
run_agent_for_channel(out) ==
  CASE out = "text" -> Returned(ReplyText)
    [] out = "empty" -> Returned(<<>>)
    [] OTHER -> Raised

\* value or _('No se pudo obtener respuesta del modelo.')
OrSentinel(t) == IF t = <<>> THEN SENTINEL ELSE t

\* _assistants_reply(prompt) or sentinel, line 322
AssistantsBranch(out) ==
  CASE out = "text" -> Returned(OrSentinel(ReplyText))
    [] out = "empty" -> Returned(OrSentinel(<<>>))
    [] OTHER -> Raised

\* _call_openai_chat(...) or sentinel, lines 325-332
ChatBranch(out) ==
  CASE out = "text" -> Returned(OrSentinel(ReplyText))
    [] out = "empty" -> Returned(OrSentinel(<<>>))
    [] OTHER -> Raised

\* a dispatch without the fallback: the runner's exception is the result
BranchTaken_noFallback(mode, agentOut) ==
  IF mode \in {"agents", "agents_sdk"} THEN "agents"
  ELSE IF mode = "assistants" THEN "assistants" ELSE "chat"

\* the branch whose backend produces the result: agents returns what the
\* runner returns; an exception of the runner is logged and falls through,
\* past the test mode == 'assistants', to chat
BranchTaken(mode, agentOut) ==
  IF mode \in {"agents", "agents_sdk"} /\ ~run_agent_for_channel(agentOut).raised
  THEN "agents"
  ELSE IF mode = "assistants" THEN "assistants" ELSE "chat"

_generate_ai_reply(mode, agentOut, assistantOut, chatOut) ==
  CASE BranchTaken(mode, agentOut) = "agents" -> run_agent_for_channel(agentOut)
    [] BranchTaken(mode, agentOut) = "assistants" -> AssistantsBranch(assistantOut)
    [] OTHER -> ChatBranch(chatOut)

\* a thread created and stored whatever the channel's token is
WritesThread_always(branch, assistantOut, thread_id) ==
  branch = "assistants" /\ assistantOut # "raise_early"

\* _assistants_reply lines 350-356: a thread is created and its id written
\* when the channel has none and the POST /threads call succeeds
WritesThread(branch, assistantOut, thread_id) ==
  branch = "assistants" /\ thread_id = 0 /\ assistantOut # "raise_early"

\* r.json()['id'] of a new thread: an id no other worker's call returns
NewThreadId(w, attempt) == w

\* a coordinator that posts what the generator gave, unchecked
CoordinatorReply_unchecked(result) == result.text

\* _worker lines 212-218: an exception and an empty result give the sentinel
CoordinatorReply(result) ==
  IF result.raised \/ result.text = <<>> THEN SENTINEL ELSE result.text

(* ------------------------ advisory and row locks ----------------------- *)
\* a lock that is granted to every session that asks
got_always(w, c) == TRUE

\* SELECT pg_try_advisory_lock(key); got = cr.fetchone()[0]: the session-level
\* lock is granted when no other session holds it (a session re-enters its own)
got(w, c) == advisory[c].holder \in {0, w}

\* the lock of c once the session of w has taken it
Locked(w, c) == [advisory EXCEPT ![c] = [holder |-> w, n |-> @.n + 1]]

\* SELECT pg_advisory_unlock(key) in the session of w: one hold is given up,
\* if the session has one
Unlocked(w, c) ==
  IF advisory[c].holder = w
  THEN [advisory EXCEPT ![c] = IF @.n > 1 THEN [@ EXCEPT !.n = @ - 1] ELSE Free]
  ELSE advisory

\* the cursor of w is closed and its connection goes back to the pool: the
\* session lives on, with the holds it has, in adv
GivenBack(adv, w, c) ==
  IF adv[c].holder = w THEN [adv EXCEPT ![c].holder = Idle] ELSE adv

\* SELECT ... FOR UPDATE of the member rows and of the channel row waits for
\* the transaction that holds them
RowsFree(w, c) == \A v \in Posts \ {w} : ~(wk[v].rows /\ wk[v].chan = c)

(* ------------------------------ _worker -------------------------------- *)
\* a loop that ends after its first iteration
HasNextAttempt_never(attempt) == FALSE

\* a loop with one iteration too many
HasNextAttempt_offByOne(attempt) == attempt <= max_attempts

\* for attempt in range(1, max_attempts + 1): another iteration follows
HasNextAttempt(attempt) == attempt < max_attempts

\* a worker that sleeps and retries when the lock is not acquired
AfterLockFailure_retry == "backoff"

\* lines 204-206: if not acquired: return
AfterLockFailure == "done"

\* an attempt that posts the reply before it locks the rows
StepAfter_postFirst(pc) ==
  CASE pc = "generate" -> "post"
    [] pc = "post" -> "commit"
    [] OTHER -> "post"

\* the order of the steps of one attempt, lines 211-247: generate the reply,
\* (delete the placeholder,) lock the rows, post the reply, commit
StepAfter(pc) ==
  CASE pc = "generate" -> "rowlock"
    [] pc = "rowlock" -> "post"
    [] OTHER -> "commit"

\* the worker's locals once its cursor is closed and it has returned
Ended(r) ==
  [ r EXCEPT !.pc = "done", !.cursor = FALSE, !.elapsed = 0, !.rows = FALSE,
             !.raw = "", !.reply = <<>>, !.newThread = 0, !.snapThread = 0,
             !.next = "" ]

CursorOutcomes == {"fresh", "reused", "raise"}

\* with registry.cursor() as cr: the pool hands out a connection, or the call
\* raises and the worker returns (except Exception, line 292).  The
\* connection is one whose session holds no lock of this channel ("fresh") or
\* the idle one that still holds it ("reused")
OpenCursor(w, out) ==
  /\ wk[w].pc = "open"
  /\ LET c == wk[w].chan IN
     CASE out = "raise" ->
            /\ wk' = [wk EXCEPT ![w] = Ended(@)]
            /\ hist' = [hist EXCEPT ![w].faulted = TRUE, ![w].outcome = "error"]
            /\ UNCHANGED advisory
       [] out = "reused" ->
            /\ advisory[c].holder = Idle
            /\ advisory' = [advisory EXCEPT ![c].holder = w]
            /\ wk' = [wk EXCEPT ![w].pc = "lock", ![w].cursor = TRUE,
                                ![w].elapsed = 0, ![w].acquired = FALSE,
                                ![w].generated = FALSE, ![w].posted = FALSE]
            /\ UNCHANGED hist
       [] OTHER ->
            /\ wk' = [wk EXCEPT ![w].pc = "lock", ![w].cursor = TRUE,
                                ![w].elapsed = 0, ![w].acquired = FALSE,
                                ![w].generated = FALSE, ![w].posted = FALSE]
            /\ UNCHANGED << hist, advisory >>
  /\ UNCHANGED << rq, rpending, msgs, thread, wpending >>
  /\ UNCHANGED helpers

\* one iteration of the loop of _acquire_channel_lock, and what the worker
\* does with its result.  dberr: cr.execute raises.  The first statement of
\* the transaction fixes its snapshot
TryLock(w, dberr) ==
  /\ wk[w].pc = "lock"
  /\ LET c == wk[w].chan
         timedOut == ~(wk[w].elapsed < LockTimeoutMs)
         snap == IF wk[w].elapsed = 0 THEN thread[c] ELSE wk[w].snapThread
     IN IF timedOut \/ dberr
        THEN \* returns False; the worker returns and the cursor is closed
             /\ wk' = [wk EXCEPT ![w] = [Ended(@) EXCEPT !.pc = AfterLockFailure]]
             /\ advisory' = GivenBack(advisory, w, c)
             /\ hist' = [hist EXCEPT
                  ![w].faulted = @ \/ ~timedOut,
                  ![w].outcome = IF timedOut THEN "lock_timeout" ELSE "lock_error"]
        ELSE IF got(w, c)
        THEN /\ advisory' = Locked(w, c)
             /\ wk' = [wk EXCEPT ![w].pc = "generate", ![w].acquired = TRUE,
                                 ![w].elapsed = 0, ![w].snapThread = snap]
             /\ UNCHANGED hist
        ELSE \* time.sleep(0.2)
             /\ wk' = [wk EXCEPT ![w].elapsed = @ + PollSleepMs,
                                 ![w].snapThread = snap]
             /\ UNCHANGED << hist, advisory >>
  /\ UNCHANGED << rq, rpending, msgs, thread, wpending >>
  /\ UNCHANGED helpers

\* lines 211-227: the reply is generated under the settings and the backend
\* behaviour of the moment; the placeholder id is None, nothing is deleted
Generate(w, mode, agentOut, assistantOut, chatOut) ==
  /\ wk[w].pc = "generate"
  /\ LET result == _generate_ai_reply(mode, agentOut, assistantOut, chatOut)
         branch == BranchTaken(mode, agentOut)
     IN /\ wk' = [wk EXCEPT
             ![w].pc = StepAfter("generate"),
             ![w].generated = TRUE,
             ![w].raw = IF result.raised THEN "raise"
                        ELSE IF result.text = <<>> THEN "empty" ELSE "text",
             ![w].reply = CoordinatorReply(result),
             ![w].newThread =
                IF WritesThread(branch, assistantOut, wk[w].snapThread)
                THEN NewThreadId(w, wk[w].attempt) ELSE 0]
  /\ UNCHANGED << rq, rpending, msgs, thread, wpending, hist, advisory >>
  /\ UNCHANGED helpers

\* an exception leaves the with block: the cursor is closed, which rolls the
\* transaction back and returns the connection; lines 288-294 then retry
\* after a sleep (SerializationFailure) or return (any other exception).
\* Neither path calls _release_channel_lock
AttemptRaises(w, out) ==
  /\ wpending' = [wpending EXCEPT ![w] = <<>>]
  /\ advisory' = GivenBack(advisory, w, wk[w].chan)
  /\ wk' = [wk EXCEPT ![w] =
       [Ended(@) EXCEPT !.pc = IF out = "serialization" THEN "backoff" ELSE "done"]]
  /\ hist' = [hist EXCEPT
       ![w].faulted = TRUE,
       ![w].outcome = IF out = "serialization" THEN @ ELSE "error"]
  /\ UNCHANGED << rq, rpending, msgs, thread >>

StatementOutcomes == {"ok", "serialization", "error"}

\* _lock_channel_members: the rows are locked, or the statement raises; it
\* raises SerializationFailure when the channel row changed since the
\* transaction's snapshot
LockMembers(w, out) ==
  /\ wk[w].pc = "rowlock"
  /\ IF out = "ok"
     THEN /\ thread[wk[w].chan] = wk[w].snapThread
          /\ RowsFree(w, wk[w].chan)
          /\ wk' = [wk EXCEPT ![w].pc = StepAfter("rowlock"), ![w].rows = TRUE,
                              ![w].raw = ""]
          /\ UNCHANGED << rq, rpending, msgs, thread, wpending, hist, advisory >>
     ELSE AttemptRaises(w, out)
  /\ UNCHANGED helpers

\* channel.with_context(openai_skip=True).message_post(body=plaintext2html(reply),
\* author_id=ai_partner_id): the reply is written in the worker's transaction
PostReply(w, out) ==
  /\ wk[w].pc = "post"
  /\ IF out = "ok"
     THEN /\ wpending' = [wpending EXCEPT ![w] = Append(@,
               Message(wk[w].chan, AI_PARTNER_EMAIL,
                       plaintext2html(wk[w].reply), "ai", w))]
          /\ wk' = [wk EXCEPT ![w].pc = StepAfter("post"), ![w].posted = TRUE]
          /\ UNCHANGED << rq, rpending, msgs, thread, hist, advisory >>
     ELSE AttemptRaises(w, out)
  /\ UNCHANGED helpers

CommitOutcomes == {"ok", "serialization", "failed"}

\* a worker that goes on to another attempt after a commit that succeeded
AfterCommit_retryAlways(out) == IF out = "failed" THEN "abort" ELSE "retry"

\* what follows cr.commit(): return (line 249), rollback, release, sleep and
\* continue (lines 250-266), or rollback and return (lines 267-280)
AfterCommit(out) ==
  CASE out = "ok" -> "done"
    [] out = "serialization" -> "retry"
    [] OTHER -> "abort"

\* a transaction whose writes survive a commit that failed
Durable_partial(out, pending) == pending

\* the writes of the transaction that become durable at cr.commit(): all of
\* them when it succeeds, none when it raises (cr.rollback(), lines 256, 269,
\* 276)
Durable(out, pending) == IF out = "ok" THEN pending ELSE <<>>

\* cr.commit(), lines 246-280: success, SerializationFailure (rollback, then
\* release, sleep and retry) or another error (rollback, then return); the
\* release of the finally clause follows in every case
Commit(w, out) ==
  /\ wk[w].pc = "commit"
  /\ LET c == wk[w].chan
         a == wk[w].attempt
     IN /\ wk' = [wk EXCEPT ![w].pc = "release", ![w].rows = FALSE,
                            ![w].raw = "", ![w].reply = <<>>,
                            ![w].newThread = 0, ![w].snapThread = 0,
                            ![w].next = AfterCommit(out)]
        /\ wpending' = [wpending EXCEPT ![w] = <<>>]
        /\ msgs' = msgs \o Durable(out, wpending[w])
        /\ IF out = "ok"
           THEN /\ thread' = IF wk[w].newThread # 0
                             THEN [thread EXCEPT ![c] = wk[w].newThread]
                             ELSE thread
                /\ hist' = [hist EXCEPT ![w].commits = @ + 1]
           ELSE /\ UNCHANGED thread
                /\ hist' = IF out = "serialization"
                           THEN [hist EXCEPT ![w].conflictAt = @ \cup {a}]
                           ELSE [hist EXCEPT ![w].faulted = TRUE]
  /\ UNCHANGED << rq, rpending, advisory >>
  /\ UNCHANGED helpers

\* _release_channel_lock after the commit.  On the retry path this is the call
\* of line 261 and the sleep follows; otherwise it is the call of the finally
\* clause, after which the worker returns and the cursor is closed
Release(w) ==
  /\ wk[w].pc = "release"
  /\ LET c == wk[w].chan IN
     /\ hist' = [hist EXCEPT
          ![w].outcome = CASE wk[w].next = "done" -> "committed"
                           [] wk[w].next = "abort" -> "error"
                           [] OTHER -> @]
     /\ IF wk[w].next = "retry"
        THEN /\ wk' = [wk EXCEPT ![w].pc = "backoff", ![w].next = ""]
             /\ advisory' = Unlocked(w, c)
        ELSE /\ wk' = [wk EXCEPT ![w] = Ended(@)]
             /\ advisory' = GivenBack(Unlocked(w, c), w, c)
  /\ UNCHANGED << rq, rpending, msgs, thread, wpending >>
  /\ UNCHANGED helpers

\* a loop that does not advance its counter
NextAttempt_same(attempt) == attempt

\* for attempt in range(1, max_attempts + 1), line 197: the next value
NextAttempt(attempt) == attempt + 1

\* time.sleep(0.25 + random.random() * 0.25); continue.  After a failed commit
\* the finally clause releases once more and the cursor is closed; then the
\* next iteration starts, or the loop ends ("max attempts exceeded")
Backoff(w) ==
  /\ wk[w].pc = "backoff"
  /\ LET c == wk[w].chan
         a == wk[w].attempt
         more == HasNextAttempt(a)
     IN /\ advisory' = IF wk[w].cursor
                        THEN GivenBack(Unlocked(w, c), w, c) ELSE advisory
        /\ hist' = [hist EXCEPT ![w].outcome = IF more THEN @ ELSE "exhausted"]
        /\ wk' = [wk EXCEPT ![w] =
             IF more
             THEN [@ EXCEPT !.pc = "open", !.cursor = FALSE,
                            !.attempt = NextAttempt(a)]
             ELSE Ended(@)]
  /\ UNCHANGED << rq, rpending, msgs, thread, wpending >>
  /\ UNCHANGED helpers

\* the pool closes the idle connection: its session ends and PostgreSQL drops
\* the advisory lock the session still holds
PoolCloseIdle(c) ==
  /\ advisory[c].holder = Idle
  /\ advisory' = [advisory EXCEPT ![c] = Free]
  /\ UNCHANGED << rq, rpending, msgs, thread, wk, wpending, hist >>
  /\ UNCHANGED helpers

(* ----------------------------- helper calls ---------------------------- *)
\* a helper is called once, in a state where nothing else has happened
NoHelperYet ==
  fn = NoCall /\ \A k \in Callers : caller[k] = NoCaller

\* values of the parameter openai_chat.agent_mode: unset, the three values of
\* the settings form, and values written by other means
ModeParams == {"", "chat", "assistants", "agents", "agents_sdk", "Agents", "other"}

\* (ICP.get_param('openai_chat.agent_mode') or 'chat').lower()
ModeOf(param) ==
  CASE param = "" -> "chat" [] param = "Agents" -> "agents" [] OTHER -> param

\* the backends _generate_ai_reply invokes, in the order it invokes them
BackendCalls(mode, agentOut) ==
  IF mode \in {"agents", "agents_sdk"} /\ BranchTaken(mode, agentOut) # "agents"
  THEN << "agents", BranchTaken(mode, agentOut) >>
  ELSE << BranchTaken(mode, agentOut) >>

\* channel._generate_ai_reply(prompt) under a mode parameter and the behaviour
\* of the backends
GenerateCall(param, agentOut, assistantOut, chatOut) ==
  /\ NoHelperYet
  /\ fn' = [ name |-> "generate", mode |-> ModeOf(param),
             agentOut |-> agentOut, assistantOut |-> assistantOut,
             chatOut |-> chatOut,
             calls |-> BackendCalls(ModeOf(param), agentOut),
             result |-> _generate_ai_reply(ModeOf(param), agentOut,
                                           assistantOut, chatOut) ]
  /\ UNCHANGED << partners, caller >>
  /\ UNCHANGED pipeline

\* the parts of which the texts given to _detect_ai_trigger are made: leading
\* whitespace, a first word, whitespace, a remainder
Hello == << "h", "e", "l", "l", "o" >>
Leads == { <<>>, << " " >>, << "\n", " " >> }
CommandCores ==
  { << "/", "a", "i" >>, << "/", "A", "I" >>, << "/", "a", "I" >>,
    << "/", "i", "a", "M", "e", "t", "a" >>,
    << "/", "I", "A", "M", "E", "T", "A" >>,
    << "/", "i", "a", "m", "e", "t", "a" >> }
OtherCores ==
  { << "/" >>, << "/", "a" >>, << "/", "i", "a" >>, << "a", "i" >>, Hello,
    << "x", "/", "a", "i" >>, << "/", " ", "a", "i" >> }
Mids == { <<>>, << " " >>, << " ", " ", " " >>, << " ", "\n" >> }
Rests ==
  { <<>>, Hello, << "h", "\n", "i" >>, << "h", "i", " " >>,
    << "/", "a", "i" >>, Hello \o << " ", "/", "a", "i" >> }

\* self._detect_ai_trigger(body_plain) on the text made of the four parts
DetectCall(lead, core, mid, rest) ==
  /\ NoHelperYet
  /\ fn' = [ name |-> "detect", lead |-> lead, core |-> core, mid |-> mid,
             rest |-> rest, text |-> lead \o core \o mid \o rest,
             out |-> _detect_ai_trigger(lead \o core \o mid \o rest) ]
  /\ UNCHANGED << partners, caller >>
  /\ UNCHANGED pipeline

\* the kinds of channel: a channel with the bot among three members, the
\* 1:1 chat with the bot, a 1:1 chat of two users, a group without the bot
ChannelKinds == {1, 2, 3, 4}

\* lines 137-146 of message_post on a channel of kind c, for an author and the
\* plain text of the body
TriggerCall(c, author, body_plain) ==
  /\ NoHelperYet
  /\ fn' = [ name |-> "trigger", chan |-> c, author |-> author,
             text |-> body_plain, out |-> TriggerOf(c, author, body_plain) ]
  /\ UNCHANGED << partners, caller >>
  /\ UNCHANGED pipeline

\* the kinds of mail.message a channel holds: a comment of the user, a
\* comment of the bot, a comment whose body has no text, a notification
MessageKinds == {"user", "bot", "blank", "notification"}

\* the stored message with id i of a kind; text is its plain text
Stored(i, kind) ==
  LET text == IF kind = "blank" THEN << " " >> ELSE << "m", ToString(i) >>
  IN [ id |-> i,
       author |-> IF kind = "bot" THEN AI_PARTNER_EMAIL ELSE EnvUser,
       type |-> IF kind = "notification" THEN "notification" ELSE "comment",
       kind |-> kind,
       body |-> plaintext2html(text) ]

\* the histories of a channel: messages with ids 1..n, oldest first
Histories ==
  UNION { [1..n -> MessageKinds] : n \in 0..MaxHistory }

\* values of the parameter openai_chat.system_prompt: a text, a blank one
SystemPrompts == { << "s", "y", "s", " " >>, << " " >> }

\* a search that keeps the oldest records
LastN_oldest(s, n) == SubSeq(s, 1, IF n < Len(s) THEN n ELSE Len(s))

\* search(domain, order='id desc', limit=n) read in reverse: the n records
\* with the greatest ids, oldest first
LastN(s, n) == SubSeq(s, IF Len(s) > n THEN Len(s) - n + 1 ELSE 1, Len(s))

\* _prepare_openai_chat_messages(user_prompt, ai_partner, cfg,
\* exclude_message_id) on a channel whose messages are history
_prepare_openai_chat_messages(history, user_prompt, cfg, exclude_message_id) ==
  LET InDomain(m) ==
        /\ m.type \in {"comment", "email"}
        /\ (exclude_message_id # 0 => m.id # exclude_message_id)
      last_msgs == LastN(SelectSeq(history, InDomain), cfg.context_count)
      entry == [ i \in 1..Len(last_msgs) |->
                 [ role |-> IF last_msgs[i].author = AI_PARTNER_EMAIL
                            THEN "assistant" ELSE "user",
                   content |-> Strip(html2plaintext(last_msgs[i].body)) ] ]
      HasContent(e) == e.content # <<>>
      system_prompt == Strip(cfg.system_prompt)
      system == IF system_prompt # <<>>
                THEN << [role |-> "system", content |-> system_prompt] >>
                ELSE <<>>
      prompt == IF user_prompt # <<>>
                THEN << [role |-> "user", content |-> user_prompt] >>
                ELSE <<>>
  IN system \o SelectSeq(entry, HasContent) \o prompt

\* the call of _generate_ai_reply in chat mode prepares the payload
PrepareCall(kinds, system_prompt, context_count, exclude_message_id) ==
  /\ NoHelperYet
  /\ LET history == [ i \in 1..Len(kinds) |-> Stored(i, kinds[i]) ]
     IN fn' = [ name |-> "prepare", history |-> history,
                system_prompt |-> system_prompt,
                context_count |-> context_count,
                exclude |-> exclude_message_id, prompt |-> PlainHi,
                out |-> _prepare_openai_chat_messages(history, PlainHi,
                          [ system_prompt |-> system_prompt,
                            context_count |-> context_count ],
                          exclude_message_id) ]
  /\ UNCHANGED << partners, caller >>
  /\ UNCHANGED pipeline

\* the contexts a caller of _post_ai_error may run in
Contexts == [ openai_skip : BOOLEAN ]

\* channel.with_context(openai_skip=True), line 236
ReplyContext == [ openai_skip |-> TRUE ]

\* a notice posted in the context of the caller as it is
ErrorContext_inherited(context) == context

\* ctx = dict(self.env.context, openai_skip=True), line 532
ErrorContext(context) == [ context EXCEPT !.openai_skip = TRUE ]

\* the texts a reply may have: CoordinatorReply never gives an empty one
ReplyTexts == { SlashHi, PlainHi }

\* the message_post of the worker, lines 236-241, on a channel of kind c:
\* what message_post decides about the reply
ReplyPostCall(c, reply, enabled, api_key, raises) ==
  /\ NoHelperYet
  /\ fn' = [ name |-> "systempost", post |-> "reply", chan |-> c,
             author |-> AI_PARTNER_EMAIL, body |-> plaintext2html(reply),
             out |-> PostOutcome(c, AI_PARTNER_EMAIL, ReplyContext.openai_skip,
                                 plaintext2html(reply), enabled, api_key,
                                 raises) ]
  /\ UNCHANGED << partners, caller >>
  /\ UNCHANGED pipeline

\* the message_post of _post_ai_error, lines 533-537, on a channel of kind c
\* for a caller running in context: what message_post decides about the notice
ErrorPostCall(c, context, enabled, api_key, raises) ==
  /\ NoHelperYet
  /\ fn' = [ name |-> "systempost", post |-> "error", chan |-> c,
             author |-> EnvUser, body |-> plaintext2html(ErrorNotice),
             out |-> PostOutcome(c, EnvUser, ErrorContext(context).openai_skip,
                                 plaintext2html(ErrorNotice), enabled, api_key,
                                 raises) ]
  /\ UNCHANGED << partners, caller >>
  /\ UNCHANGED pipeline

\* the statuses a run of the Assistants API reports
Pending == {"queued", "in_progress", "requires_action"}
RunStatuses == Pending \cup {"completed", "failed", "cancelling"}

\* the messages of a thread: of the assistant with one text part, with two,
\* with an image only, and of the user
ThreadMessageKinds == {"assistant_text", "assistant_two", "assistant_image", "user"}

\* the message at place i of the listing (order desc: place 1 is the latest)
ThreadMessage(i, kind) ==
  [ role |-> IF kind = "user" THEN "user" ELSE "assistant",
    content |->
      CASE kind = "assistant_image" -> << [type |-> "image_file", value |-> <<>>] >>
        [] kind = "assistant_two" ->
             << [type |-> "text", value |-> << "a", ToString(i) >>],
                [type |-> "image_file", value |-> <<>>],
                [type |-> "text", value |-> << "b", ToString(i) >>] >>
        [] OTHER -> << [type |-> "text", value |-> << "a", ToString(i) >>] >> ]

\* GET /threads/{id}/messages?order=desc&limit=10
Listings ==
  UNION { [1..n -> ThreadMessageKinds] : n \in 0..MaxListing }

\* '\n'.join(parts)
RECURSIVE JoinLines(_)
JoinLines(parts) ==
  IF parts = <<>> THEN <<>>
  ELSE IF Len(parts) = 1 THEN Head(parts)
  ELSE Head(parts) \o << "\n" >> \o JoinLines(Tail(parts))

\* the values of the parts of type text of a message
RECURSIVE TextParts(_)
TextParts(content) ==
  IF content = <<>> THEN <<>>
  ELSE IF Head(content).type = "text"
       THEN << Head(content).value >> \o TextParts(Tail(content))
       ELSE TextParts(Tail(content))

\* lines 396-404: the joined text parts of the first message of the listing
\* that is of the assistant and has a text part; '' if there is none
RECURSIVE ReplyOf(_)
ReplyOf(data) ==
  IF data = <<>> THEN <<>>
  ELSE IF Head(data).role = "assistant" /\ TextParts(Head(data).content) # <<>>
       THEN JoinLines(TextParts(Head(data).content))
       ELSE ReplyOf(Tail(data))

\* lines 366-375: the run is created, its first status is read and the clock
\* of the poll starts.  timeout is openai_chat.timeout, kinds the messages
\* the thread will list
RunCreated(status, timeout, kinds) ==
  /\ NoHelperYet
  /\ fn' = [ name |-> "run", pc |-> "polling", status |-> status,
             elapsed |-> 0, timeout |-> timeout, polls |-> 0,
             data |-> [ i \in 1..Len(kinds) |-> ThreadMessage(i, kinds[i]) ],
             error |-> "", result |-> <<>> ]
  /\ UNCHANGED << partners, caller >>
  /\ UNCHANGED pipeline

\* one pass of the loop of lines 376-382 while the status is pending: raise
\* on timeout, else sleep and read the run again (dt: the time the pass
\* takes, status: what the API answers, httpError: raise_for_status raises)
PollIteration(dt, status, httpError) ==
  /\ fn.name = "run" /\ fn.pc = "polling"
  /\ fn.status \in Pending
  /\ fn' = IF fn.elapsed > fn.timeout
           THEN [fn EXCEPT !.pc = "raised", !.error = "timeout"]
           ELSE IF httpError
           THEN [fn EXCEPT !.pc = "raised", !.error = "http",
                           !.polls = @ + 1, !.elapsed = @ + dt]
           ELSE [fn EXCEPT !.status = status, !.polls = @ + 1,
                           !.elapsed = @ + dt]
  /\ UNCHANGED << partners, caller >>
  /\ UNCHANGED pipeline

\* lines 384-404, once the status is not pending: a status other than
\* completed raises; otherwise the messages are listed (httpError:
\* raise_for_status raises) and the reply is read from them
AfterPoll(httpError) ==
  /\ fn.name = "run" /\ fn.pc = "polling"
  /\ fn.status \notin Pending
  /\ fn' = IF fn.status # "completed"
           THEN [fn EXCEPT !.pc = "raised", !.error = "status"]
           ELSE IF httpError
           THEN [fn EXCEPT !.pc = "raised", !.error = "http"]
           ELSE [fn EXCEPT !.pc = "returned", !.result = ReplyOf(fn.data)]
  /\ UNCHANGED << partners, caller >>
  /\ UNCHANGED pipeline

\* the id of the record that Partner.create gives caller k: a new one
NewPartnerId(k) == k

\* Partner.search([('email', '=', AI_PARTNER_EMAIL)], limit=1) in the
\* transaction of caller k: one of the committed records, if there is any;
\* "if partner: return partner"
SearchPartner(k) ==
  /\ fn = NoCall
  /\ caller[k].pc = "idle"
  /\ IF partners # {}
     THEN \E r \in partners :
            caller' = [caller EXCEPT ![k] = [@ EXCEPT !.pc = "returned", !.result = r]]
     ELSE caller' = [caller EXCEPT ![k].pc = "missed"]
  /\ UNCHANGED << fn, partners >>
  /\ UNCHANGED pipeline

\* return Partner.create({'name': ..., 'email': AI_PARTNER_EMAIL, ...}): no
\* constraint of the table refuses a second record with the email
CreatePartner(k) ==
  /\ caller[k].pc = "missed"
  /\ caller' = [caller EXCEPT ![k] = [pc |-> "returned", made |-> NewPartnerId(k),
                                      result |-> NewPartnerId(k)]]
  /\ UNCHANGED << fn, partners >>
  /\ UNCHANGED pipeline

\* the transaction of caller k commits: the record it created becomes visible
CommitCaller(k) ==
  /\ caller[k].pc = "returned"
  /\ partners' = IF caller[k].made # 0 THEN partners \cup {caller[k].made}
                 ELSE partners
  /\ caller' = [caller EXCEPT ![k].pc = "done"]
  /\ UNCHANGED fn
  /\ UNCHANGED pipeline

(* --------------------------- specifications ---------------------------- *)
\* the backend outcomes that matter under a mode: the runner's under agents,
\* the Assistants API's under assistants, the chat backend's otherwise
AgentOutcomesFor(mode) ==
  IF mode = "agents" THEN AgentOutcomes ELSE {"raise"}
AssistantOutcomesFor(mode) ==
  IF mode = "assistants" THEN AssistantOutcomes ELSE {"raise_early"}
ChatOutcomesFor(mode, agentOut) ==
  IF BranchTaken(mode, agentOut) = "chat" THEN ChatOutcomes ELSE {"raise"}

WorkerStep(w) ==
  \/ \E out \in CursorOutcomes : OpenCursor(w, out)
  \/ \E dberr \in BOOLEAN : TryLock(w, dberr)
  \/ \E mode \in Modes :
       \E agentOut \in AgentOutcomesFor(mode),
          assistantOut \in AssistantOutcomesFor(mode) :
         \E chatOut \in ChatOutcomesFor(mode, agentOut) :
           Generate(w, mode, agentOut, assistantOut, chatOut)
  \/ \E out \in StatementOutcomes : LockMembers(w, out)
  \/ \E out \in StatementOutcomes : PostReply(w, out)
  \/ \E out \in CommitOutcomes : Commit(w, out)
  \/ Release(w)
  \/ Backoff(w)

\* a request with any input
AnyPost(p) ==
  \E c \in Channels, author \in Authors, skip \in BOOLEAN, body \in Bodies,
     enabled \in BOOLEAN, api_key \in BOOLEAN, raises \in BOOLEAN :
    message_post(p, c, author, skip, body, enabled, api_key, raises)

\* a request of a user that triggers, with the settings complete.  The
\* workers do not look at the kind of their channel, so request p is posted on
\* one of the first p channels: every pattern of shared and distinct channels
\* occurs once
TriggeringPost(p) ==
  \E c \in Channels :
    /\ c <= p
    /\ message_post(p, c, EnvUser, FALSE, SlashHi, TRUE, TRUE, FALSE)

\* the reply pipeline: triggering requests and the workers they start
Next ==
  \/ \E p \in Posts : TriggeringPost(p)
  \/ \E p \in Posts : RequestCommit(p)
  \/ \E p \in Posts : RequestRollback(p)
  \/ \E w \in Posts : WorkerStep(w)
  \/ \E c \in Channels : PoolCloseIdle(c)

Spec == Init /\ [][Next]_vars

\* the request path: requests with any input, up to the start of the worker
NextRequests ==
  \/ \E p \in Posts : AnyPost(p)
  \/ \E p \in Posts : RequestCommit(p)
  \/ \E p \in Posts : RequestRollback(p)

SpecRequests == Init /\ [][NextRequests]_vars

\* one request with any input, and the worker it starts
SingleRequest == CHOOSE p \in Posts : \A q \in Posts : p <= q

NextSingle ==
  \/ AnyPost(SingleRequest)
  \/ RequestCommit(SingleRequest)
  \/ RequestRollback(SingleRequest)
  \/ WorkerStep(SingleRequest)
  \/ \E c \in Channels : PoolCloseIdle(c)

SpecSingle == Init /\ [][NextSingle]_vars

\* a worker is a thread of its own (line 303): once started it keeps
\* running, each of its steps returning or timing out
WorkerRuns == WF_vars(WorkerStep(SingleRequest))

\* one request and its worker, which keeps running
SpecLive == SpecSingle /\ WorkerRuns

\* the helpers, each called with the arguments and under the conditions that
\* can occur
NextHelpers ==
  \/ NoHelperYet /\ \E param \in ModeParams, agentOut \in AgentOutcomes,
        assistantOut \in AssistantOutcomes, chatOut \in ChatOutcomes :
       GenerateCall(param, agentOut, assistantOut, chatOut)
  \/ NoHelperYet /\ \E lead \in Leads, core \in CommandCores \cup OtherCores,
        mid \in Mids, rest \in Rests :
       DetectCall(lead, core, mid, rest)
  \/ NoHelperYet /\ \E c \in ChannelKinds, author \in Authors, body \in Bodies :
       TriggerCall(c, author, Strip(html2plaintext(body)))
  \/ NoHelperYet /\ \E kinds \in Histories, system_prompt \in SystemPrompts,
        context_count \in 1..MaxHistory, exclude_message_id \in 0..MaxHistory :
       PrepareCall(kinds, system_prompt, context_count, exclude_message_id)
  \/ NoHelperYet /\ \E c \in ChannelKinds, reply \in ReplyTexts,
        enabled \in BOOLEAN, api_key \in BOOLEAN, raises \in BOOLEAN :
       ReplyPostCall(c, reply, enabled, api_key, raises)
  \/ NoHelperYet /\ \E c \in ChannelKinds, context \in Contexts,
        enabled \in BOOLEAN, api_key \in BOOLEAN, raises \in BOOLEAN :
       ErrorPostCall(c, context, enabled, api_key, raises)
  \/ NoHelperYet /\ \E status \in RunStatuses, timeout \in 1..MaxWait,
        kinds \in Listings :
       RunCreated(status, timeout, kinds)
  \/ \E dt \in 1..MaxWait, status \in RunStatuses, httpError \in BOOLEAN :
       PollIteration(dt, status, httpError)
  \/ \E httpError \in BOOLEAN : AfterPoll(httpError)
  \/ \E k \in Callers : SearchPartner(k)
  \/ \E k \in Callers : CreatePartner(k)
  \/ \E k \in Callers : CommitCaller(k)

SpecHelpers == Init /\ [][NextHelpers]_vars

(* ------------------------------ properties ----------------------------- *)
\* the attempt of w has acquired the advisory lock and not yet released it
HoldsLock(w) ==
  wk[w].acquired /\ wk[w].pc \in {"generate", "rowlock", "post", "commit", "release"}

\* the committed messages of kind k that the request or the worker w wrote
Committed(w, k) ==
  { i \in 1..Len(msgs) : msgs[i].by = w /\ msgs[i].kind = k }

\* C1: on one channel at most one attempt holds the advisory lock at a time,
\* the session recorded as holder being that attempt's; an attempt that finds
\* the lock held polls for no more than LockTimeoutMs and, when it abandons on
\* the timeout, has not acquired the lock
C1_AdvisoryLockExclusive ==
  /\ \A v \in Posts : \A w \in Posts \ {v} :
       ~(wk[v].chan = wk[w].chan /\ HoldsLock(v) /\ HoldsLock(w))
  /\ \A w \in Posts :
       /\ HoldsLock(w) =>
            advisory[wk[w].chan].holder = w /\ advisory[wk[w].chan].n >= 1
       /\ wk[w].pc = "lock" => wk[w].elapsed <= LockTimeoutMs
       /\ hist[w].outcome = "lock_timeout" => ~wk[w].acquired

\* C1 witness: one attempt holds the lock while another worker of the same
\* channel has polled until the timeout and abandoned
C1_Witness ==
  \E v \in Posts : \E w \in Posts \ {v} :
    /\ wk[v].chan = wk[w].chan
    /\ HoldsLock(v)
    /\ hist[w].outcome = "lock_timeout"

\* C2: a reply is written only by an attempt that holds the advisory lock and
\* the row locks, the lock is still held after the commit until the release,
\* and no two workers of one channel have an uncommitted reply at once
C2_PostUnderLocks ==
  /\ \A w \in Posts :
       /\ wpending[w] # <<>> =>
            /\ wk[w].pc = "commit"
            /\ wk[w].acquired /\ wk[w].rows
            /\ advisory[wk[w].chan].holder = w /\ advisory[wk[w].chan].n >= 1
       /\ wk[w].pc = "release" =>
            advisory[wk[w].chan].holder = w /\ advisory[wk[w].chan].n >= 1
  /\ \A v \in Posts : \A w \in Posts \ {v} :
       ~(wk[v].chan = wk[w].chan /\ wpending[v] # <<>> /\ wpending[w] # <<>>)

\* C2 witness: a worker has posted and not yet committed while another worker
\* of the same channel is polling for the lock
C2_Witness ==
  \E v \in Posts : \E w \in Posts \ {v} :
    /\ wk[v].chan = wk[w].chan
    /\ wpending[v] # <<>>
    /\ wk[w].pc = "lock" /\ wk[w].elapsed > 0

\* C3: once the cursor of an attempt is closed, no session left idle in the
\* pool holds the advisory lock of a channel: every attempt has released it
C3_LockReleasedAtAttemptEnd ==
  \A c \in Channels : advisory[c].holder # Idle

\* C4: a worker whose commit conflicted on attempt 1 and on no other, and that
\* met no other error and no lock timeout, has when it stops committed exactly
\* one reply, on attempt 2 or 3
C4_RetryConverges ==
  \A w \in Posts :
    ( /\ wk[w].pc = "done"
      /\ hist[w].conflictAt = {1}
      /\ ~hist[w].faulted
      /\ hist[w].outcome # "lock_timeout" )
    => /\ hist[w].outcome = "committed"
       /\ hist[w].commits = 1
       /\ wk[w].attempt \in {2, 3}
       /\ Cardinality(Committed(w, "ai")) = 1

\* C4 witness: a worker has stopped after a conflict on attempt 1 and a commit
C4_Witness ==
  \E w \in Posts :
    /\ wk[w].pc = "done"
    /\ hist[w].conflictAt = {1}
    /\ ~hist[w].faulted
    /\ hist[w].outcome = "committed"

\* C5: a worker never makes more than max_attempts attempts; when the commit
\* of each of them conflicted, the worker has given up, has committed nothing
\* and no reply or notice of it is among the committed messages
C5_BoundedAttempts ==
  \A w \in Posts :
    /\ wk[w].attempt <= max_attempts
    /\ hist[w].conflictAt \subseteq 1..max_attempts
    /\ (wk[w].pc = "done" /\ hist[w].conflictAt = 1..max_attempts) =>
         /\ hist[w].outcome = "exhausted"
         /\ hist[w].commits = 0
         /\ wpending[w] = <<>>
         /\ Committed(w, "ai") = {}
         /\ Committed(w, "error") = {}

\* C5 witness: a worker has stopped after a conflict at every attempt
C5_Witness ==
  \E w \in Posts :
    wk[w].pc = "done" /\ hist[w].conflictAt = 1..max_attempts

\* C6: a worker that abandoned on the lock timeout has stopped for good, and
\* in that attempt the generator was not invoked and nothing was posted; no
\* reply of it is committed
C6_LockTimeoutAbandons ==
  \A w \in Posts :
    hist[w].outcome = "lock_timeout" =>
      /\ wk[w].pc = "done"
      /\ ~wk[w].cursor
      /\ ~wk[w].generated
      /\ ~wk[w].posted
      /\ wpending[w] = <<>>
      /\ hist[w].commits = 0
      /\ Committed(w, "ai") = {}

\* C6 witness: a worker abandoned on the lock timeout in a retry
C6_Witness ==
  \E w \in Posts :
    hist[w].outcome = "lock_timeout" /\ wk[w].attempt >= 2

\* C7: a request whose message is authored by the bot never triggers: no
\* prompt is extracted, no continuation is registered, no worker is started
C7_BotNeverTriggers ==
  \A p \in Posts :
    (rq[p].pc # "new" /\ rq[p].author = AI_PARTNER_EMAIL) =>
      /\ rq[p].prompt = <<>>
      /\ ~rq[p].hook
      /\ wk[p].pc = "none"

\* C8: a worker exists only for a request whose transaction has committed,
\* and was started by that commit; while the request is open or after it has
\* rolled back there is no worker and the generator has not been invoked
C8_WorkerAfterCommit ==
  \A p \in Posts :
    /\ wk[p].pc # "none" =>
         rq[p].pc = "committed" /\ hist[p].started = "commit"
    /\ rq[p].pc \in {"new", "open", "rolledback"} =>
         /\ wk[p].pc = "none"
         /\ ~wk[p].generated
         /\ hist[p].started = ""

\* C8 witness: one request registered its continuation and rolled back,
\* another committed and its worker has invoked the generator
C8_Witness ==
  \E p \in Posts : \E w \in Posts \ {p} :
    /\ rq[p].pc = "rolledback" /\ rq[p].hook
    /\ rq[w].pc = "committed" /\ wk[w].generated

\* C9: a request that triggers with a prompt while no API key is configured
\* has posted one error notice in its own transaction, has registered no
\* continuation, and has no worker
C9_MissingKeyReported ==
  \A p \in Posts :
    (rq[p].pc # "new" /\ rq[p].trigger /\ rq[p].prompt # <<>> /\ ~rq[p].hasKey) =>
      /\ rq[p].errors = 1
      /\ ~rq[p].hook
      /\ wk[p].pc = "none"
      /\ rq[p].pc = "open" =>
           /\ Len(rpending[p]) = 2
           /\ rpending[p][2] = _post_ai_error(rq[p].chan, p)
      /\ rq[p].pc = "committed" => Cardinality(Committed(p, "error")) = 1
      /\ rq[p].pc = "rolledback" => Committed(p, "error") = {}

\* C9 witness: such a request has committed, its notice with it
C9_Witness ==
  \E p \in Posts :
    /\ rq[p].pc = "committed"
    /\ rq[p].trigger /\ rq[p].prompt # <<>> /\ ~rq[p].hasKey
    /\ Committed(p, "error") # {}

C12_ThreadTokenKept ==
  [][ /\ \A c \in Channels : thread[c] # 0 => thread'[c] = thread[c]
      /\ \A w \in Posts : wk'[w].newThread # 0 => wk'[w].snapThread = 0 ]_vars

\* C12 witness: a channel has a committed token while a concurrent attempt,
\* which read the channel before that commit, has created another thread
C12_Witness ==
  \E w \in Posts :
    /\ wk[w].newThread # 0
    /\ thread[wk[w].chan] # 0
    /\ thread[wk[w].chan] # wk[w].newThread

\* C13: there is never more than one committed record with the bot's email,
\* and callers that have finished have all obtained the same record
C13_OneBotIdentity ==
  /\ Cardinality(partners) <= 1
  /\ \A j \in Callers : \A k \in Callers :
       (caller[j].pc = "done" /\ caller[k].pc = "done") =>
         caller[j].result = caller[k].result

\* the worker of request p has ended without committing a reply
Failed(p) ==
  hist[p].outcome \in {"lock_timeout", "lock_error", "error", "exhausted"}

Trimmed(rest) == IF rest = << "h", "i", " " >> THEN << "h", "i" >> ELSE rest

\* C15: _detect_ai_trigger reports a trigger, with the trimmed remainder as
\* prompt, exactly for the texts whose first word, after optional whitespace,
\* is /ai or /iaMeta in any letter case; other texts give (false, "").  In
\* particular "/ai hello" gives (true, "hello"), "/iaMeta   " gives
\* (true, "") and "hello /ai" gives (false, "")
C15_DetectSlashCommand ==
  fn.name = "detect" =>
    /\ fn.core \in CommandCores => fn.out = << TRUE, Trimmed(fn.rest) >>
    /\ fn.core \notin CommandCores => fn.out = << FALSE, <<>> >>
    /\ fn.text = << "/", "a", "i", " " >> \o Hello => fn.out = << TRUE, Hello >>
    /\ fn.text = << "/", "i", "a", "M", "e", "t", "a", " ", " ", " " >> =>
         fn.out = << TRUE, <<>> >>
    /\ fn.text = Hello \o << " ", "/", "a", "i" >> => fn.out = << FALSE, <<>> >>

\* C15 witness: a command in upper case after leading whitespace, followed
\* by a remainder that spans two lines
C15_Witness ==
  /\ fn.name = "detect"
  /\ fn.lead # <<>>
  /\ fn.core = << "/", "I", "A", "M", "E", "T", "A" >>
  /\ fn.out = << TRUE, << "h", "\n", "i" >> >>

\* C16 as stated: the trigger decision never reports a trigger together with
\* an empty prompt
C16_NoTriggerWithEmptyPrompt ==
  \A p \in Posts : ~(rq[p].trigger /\ rq[p].prompt = <<>>)

\* C16 amended: a trigger reported with an empty prompt (a bare slash
\* command) has no effect: the request registers no continuation, posts no
\* error notice, writes the original message only and starts no worker; and
\* a request that reports no trigger extracts no prompt
C16_EmptyPromptHasNoEffect ==
  \A p \in Posts :
    /\ (rq[p].trigger /\ rq[p].prompt = <<>>) =>
         /\ ~rq[p].hook
         /\ rq[p].errors = 0
         /\ wk[p].pc = "none"
         /\ rq[p].pc = "open" => Len(rpending[p]) = 1
    /\ ~rq[p].trigger => rq[p].prompt = <<>>

\* C16 witness: a request with a bare slash command, the integration enabled
\* and an API key set, has committed
C16_Witness ==
  \E p \in Posts :
    /\ rq[p].pc = "committed"
    /\ rq[p].trigger /\ rq[p].prompt = <<>> /\ rq[p].hasKey

\* C17: without a slash command, a post in the 1:1 chat with the bot by the
\* other member triggers with the whole text as prompt, and a post anywhere
\* else, or by the bot, does not trigger; with a slash command the result is
\* the command's, on every channel and for every author
C17_DirectConversationRule ==
  fn.name = "trigger" =>
    LET slash == fn.text \in {SlashHi, Strip(SlashBare)}
        direct == fn.chan = 2
    IN /\ fn.text = SlashHi => fn.out = << TRUE, PlainHi >>
       /\ fn.text = Strip(SlashBare) => fn.out = << TRUE, <<>> >>
       /\ (~slash /\ direct /\ fn.author # AI_PARTNER_EMAIL) =>
            fn.out = << TRUE, fn.text >>
       /\ (~slash /\ ~(direct /\ fn.author # AI_PARTNER_EMAIL)) =>
            fn.out = << FALSE, <<>> >>

\* C17 witness: a plain text posted by the user in the 1:1 chat with the bot
C17_Witness ==
  /\ fn.name = "trigger"
  /\ fn.chan = 2 /\ fn.author = EnvUser /\ fn.text = PlainHi
  /\ fn.out = << TRUE, PlainHi >>

\* the ids of the messages of the call that may enter the list: every
\* message but the excluded one, or the comments among them only
Eligible(commentsOnly) ==
  { i \in 1..Len(fn.history) :
      /\ i # fn.exclude
      /\ commentsOnly => fn.history[i].kind # "notification" }

\* the context_count most recent of them
Window(commentsOnly) ==
  { i \in Eligible(commentsOnly) :
      Cardinality({ j \in Eligible(commentsOnly) : j > i }) < fn.context_count }

\* the message list made of the system prompt, the messages with the ids
\* in keep, oldest first, and the new prompt
ListOf(keep, withSystem) ==
  LET first == IF withSystem THEN 1 ELSE 0
      IdAt(k) == CHOOSE i \in keep : Cardinality({ j \in keep : j < i }) = k - 1
  IN [ k \in 1..(first + Cardinality(keep) + 1) |->
       IF k <= first THEN [role |-> "system", content |-> << "s", "y", "s" >>]
       ELSE IF k = first + Cardinality(keep) + 1
       THEN [role |-> "user", content |-> fn.prompt]
       ELSE [ role |-> IF fn.history[IdAt(k - first)].kind = "bot"
                       THEN "assistant" ELSE "user",
              content |-> << "m", ToString(IdAt(k - first)) >> ] ]

C19_SystemPostsBypass ==
  fn.name = "systempost" =>
    /\ ~fn.out.detects
    /\ ~fn.out.trigger
    /\ fn.out.prompt = <<>>
    /\ ~fn.out.hook
    /\ fn.out.errors = 0

\* C19 witness: an error notice posted in the direct conversation with the
\* bot, where any text of a user would trigger, has no effect
C19_Witness ==
  /\ fn.name = "systempost"
  /\ fn.post = "error"
  /\ _is_dm_with_ai_bot(fn.chan)
  /\ TriggerOf(fn.chan, fn.author, Strip(html2plaintext(fn.body)))[1]
  /\ ~fn.out.hook
  /\ fn.out.errors = 0

\* C20 as stated: during the backoff sleep that follows a write conflict at
\* commit (line 265, the cursor still open), the session of the worker no
\* longer holds the advisory lock of the channel
C20_LockFreeDuringBackoff ==
  \A w \in Posts :
    (wk[w].pc = "backoff" /\ wk[w].cursor) =>
      advisory[wk[w].chan].holder # w

\* worker w is inside the transaction of an attempt
InAttempt(w) == wk[w].pc \in {"lock", "generate", "rowlock", "post", "commit"}

\* the step ends the attempt of w without a commit: commit conflict, any
\* other error, or abandonment
EndsWithoutCommit(w) ==
  /\ InAttempt(w)
  /\ \/ wk'[w].pc \in {"done", "backoff"}
     \/ wk[w].pc = "commit" /\ wk'[w].next \in {"retry", "abort"}

\* C21: the writes of an attempt are committed together or not at all: a
\* step that ends an attempt without a commit leaves the committed messages
\* and thread tokens as they are and discards the pending writes, and the
\* step of a successful commit adds all pending messages and the new thread
\* token at once
C21_AttemptAtomic ==
  [][ \A w \in Posts :
        /\ EndsWithoutCommit(w) =>
             /\ msgs' = msgs /\ thread' = thread
             /\ wpending'[w] = <<>> /\ wk'[w].newThread = 0
        /\ (wk[w].pc = "commit" /\ wk'[w].next = "done") =>
             /\ msgs' = msgs \o wpending[w]
             /\ wk[w].newThread # 0 =>
                  thread'[wk[w].chan] = wk[w].newThread
             /\ wpending'[w] = <<>> ]_vars

\* C21 witness: an attempt that had posted its reply ended by a commit
\* conflict, and no reply of the worker is among the committed messages
C21_Witness ==
  \E w \in Posts :
    /\ wk[w].pc = "release" /\ wk[w].next = "retry"
    /\ wk[w].posted
    /\ \A i \in 1..Len(msgs) : ~(msgs[i].kind = "ai" /\ msgs[i].by = w)

\* the place in the committed messages of the message of a kind written by p
\* (0 if there is none)
PlaceOf(kind, p) ==
  IF \E i \in 1..Len(msgs) : msgs[i].kind = kind /\ msgs[i].by = p
  THEN CHOOSE i \in 1..Len(msgs) : msgs[i].kind = kind /\ msgs[i].by = p
  ELSE 0

\* C22: the commit of a triggered post with credentials starts the worker of
\* that post, at its first attempt, whatever the other workers are doing, and
\* leaves them alone; replies become visible one worker at a time, after
\* everything committed before
C22_EveryTriggerStartsItsWorker ==
  [][ /\ \A p \in Posts :
           ( /\ rq[p].pc = "open" /\ rq'[p].pc = "committed"
             /\ rq[p].trigger /\ rq[p].prompt # <<>> /\ rq[p].hasKey ) =>
             /\ wk[p].pc = "none"
             /\ wk'[p].pc = "open" /\ wk'[p].attempt = 1
             /\ wk'[p].chan = rq[p].chan /\ wk'[p].prompt = rq[p].prompt
             /\ \A v \in Posts \ {p} : wk'[v] = wk[v]
      /\ Len(msgs') >= Len(msgs)
      /\ SubSeq(msgs', 1, Len(msgs)) = msgs
      /\ \A i, j \in (Len(msgs) + 1)..Len(msgs') : msgs'[i].by = msgs'[j].by
    ]_vars

\* C22 witness: two triggers on the same channel have both committed a
\* reply, and the reply to the trigger that arrived second was committed first
C22_Witness ==
  \E a, b \in Posts :
    /\ a # b
    /\ PlaceOf("user", a) > 0 /\ PlaceOf("ai", a) > 0
    /\ PlaceOf("user", b) > 0 /\ PlaceOf("ai", b) > 0
    /\ msgs[PlaceOf("user", a)].chan = msgs[PlaceOf("user", b)].chan
    /\ PlaceOf("user", a) < PlaceOf("user", b)
    /\ PlaceOf("ai", b) < PlaceOf("ai", a)

\* the text of the latest message of the assistant in a listing, whatever
\* its parts are ('' if the assistant has no message)
RECURSIVE LatestAssistantText(_)
LatestAssistantText(data) ==
  IF data = <<>> THEN <<>>
  ELSE IF Head(data).role = "assistant"
       THEN JoinLines(TextParts(Head(data).content))
       ELSE LatestAssistantText(Tail(data))

\* C23 as stated: the run is read again only while its status is queued,
\* in_progress or requires_action; once the timeout has elapsed with such a
\* status the poll ends with an error; a status that is neither pending nor
\* completed is an error; a text is returned only for a completed run, and
\* it is the text of the latest message of the assistant
C23_PollAndLatestAssistantText ==
  [][ fn.name = "run" =>
        /\ fn'.polls # fn.polls =>
             fn.status \in Pending /\ ~(fn.elapsed > fn.timeout)
        /\ (fn.pc = "polling" /\ fn.status \in Pending
               /\ fn.elapsed > fn.timeout) =>
             fn'.pc = "raised" /\ fn'.error = "timeout"
        /\ (fn.pc = "polling" /\ fn.status \notin Pending \cup {"completed"}) =>
             fn'.pc = "raised" /\ fn'.error = "status"
        /\ fn'.pc = "returned" =>
             /\ fn.status = "completed"
             /\ fn'.result = LatestAssistantText(fn.data)
    ]_vars

\* C24: over all the attempts of a worker at most one reply is committed:
\* the committed replies of a worker are as many as its successful commits,
\* never more than one, and after a successful commit the worker only
\* releases the lock and returns; a reply waits in an open transaction only
\* while the worker has committed nothing
C24_AtMostOneReplyPerTrigger ==
  \A w \in Posts :
    /\ Cardinality(Committed(w, "ai")) = hist[w].commits
    /\ hist[w].commits <= 1
    /\ hist[w].commits = 1 =>
         /\ wk[w].pc \in {"release", "done"}
         /\ wk[w].pc = "release" => wk[w].next = "done"
         /\ wpending[w] = <<>>

\* C24 witness: a worker has posted a reply in each of three attempts, the
\* commits of the first two met a conflict, and one reply is committed
C24_Witness ==
  \E w \in Posts :
    /\ wk[w].pc = "done"
    /\ wk[w].attempt = max_attempts
    /\ hist[w].conflictAt = 1..(max_attempts - 1)
    /\ hist[w].commits = 1
    /\ Cardinality(Committed(w, "ai")) = 1

\* the ways a worker ends: reply committed, abandoned on lock timeout,
\* abandoned on error (of the lock statement or of any other step), attempts
\* exhausted
Outcomes == {"committed", "lock_timeout", "lock_error", "error", "exhausted"}

\* C25: every worker that was started ends, after at most max_attempts
\* attempts, each polling for the lock no longer than the lock timeout, in
\* exactly one outcome, which fits what it has done: a reply is committed if
\* and only if the outcome is "committed", the attempts are exhausted only at
\* the last attempt; a worker that has ended does nothing more
C25_WorkerTerminates ==
  /\ \A w \in Posts : (wk[w].pc # "none") ~> (wk[w].pc = "done")
  /\ [](\A w \in Posts :
         /\ wk[w].attempt <= max_attempts
         /\ wk[w].elapsed <= LockTimeoutMs
         /\ wk[w].pc = "done" <=> hist[w].outcome \in Outcomes
         /\ wk[w].pc # "done" => hist[w].outcome = ""
         /\ wk[w].pc = "done" =>
              /\ hist[w].outcome = "committed" <=> hist[w].commits = 1
              /\ hist[w].outcome = "exhausted" => wk[w].attempt = max_attempts)
  /\ [][\A w \in Posts :
         wk[w].pc = "done" => wk'[w] = wk[w] /\ hist'[w] = hist[w]]_vars

\* C25 witness: a worker has ended in its last attempt, abandoned on a lock
\* timeout, after an attempt that met a commit conflict
C25_Witness ==
  \E w \in Posts :
    /\ wk[w].pc = "done"
    /\ hist[w].outcome = "lock_timeout"
    /\ hist[w].conflictAt # {}
    /\ wk[w].attempt = max_attempts

=============================================================================
